---- MODULE Spec2Model ----
(***************************************************************************)
(* Model of the indexer lambda:                                            *)
(*   - queuedTasks (src/lib/util.js): bounded-concurrency task queue       *)
(*   - main        (src/index.js):    per-archive ingestion into the       *)
(*                                    cars / blocks tables                 *)
(* The two parts share no state.  SpecQ runs the queue, SpecMain runs      *)
(* main; each keeps the other part's variables at their initial value.     *)
(***************************************************************************)
EXTENDS Integers, Sequences, FiniteSets, TLC

(***************************************************************************)
(* Bounds                                                                  *)
(***************************************************************************)
MaxTasks == 3
MaxConcurrency == 2
MaxDoneCalls == 1
MaxRunCalls == 1

Tasks == 1..MaxTasks

\* `undefined` for the error variable; a task k rejects with the Error
\* object numbered k (always truthy), and resolves with the result k.
Undefined == 0

(***************************************************************************)
(* queuedTasks: state                                                      *)
(***************************************************************************)
VARIABLES
    concurrency,      \* option `concurrency`
    onTaskComplete,   \* TRUE iff the option `onTaskComplete` is given
    queue,            \* _queue
    taskCompleted,    \* taskCompleted (array of promises)
    running,          \* running
    error,            \* error
    resolveSet,       \* TRUE iff _resolve has been assigned
    endJobs,          \* pending reactions of Promise.allSettled(...).then,
                      \* each with the promises it waits for
    \* history of the run, not read by the code
    status,           \* task -> "new" | "queued" | "running" | "ok" | "failed" | "discarded"
    started,          \* tasks in the order f() was called
    settled,          \* tasks in the order their promise settled
    cbCalls,          \* arguments of the onTaskComplete calls, in call order
    cbPending,        \* onTaskComplete invocations whose promise is pending
    nAdded,           \* number of add() calls so far
    nRunCalls,        \* number of direct run() calls so far
    firstError,       \* error of the first task that failed
    donePromise,      \* promise of the latest done(): "none" | "pending" | "resolved"
    doneValue,        \* the `error` field it resolved with
    doneCalls,        \* number of done() calls so far
    doneAfterFailure, \* the latest done() was called after a task had failed
    atResolve         \* queue length, running and pending callbacks when it resolved

qvars == <<concurrency, onTaskComplete, queue, taskCompleted, running, error,
           resolveSet, endJobs, status, started, settled, cbCalls, cbPending,
           nAdded, nRunCalls, firstError, donePromise, doneValue, doneCalls,
           doneAfterFailure, atResolve>>

(***************************************************************************)
(* main: state                                                             *)
(***************************************************************************)
VARIABLES
    carsTable,     \* car id -> item of the cars table
    blocksTable,   \* cid -> item of the blocks table
    event,         \* invocation -> event.Records, as car ids
    pc,            \* invocation -> where main is
    currentCar,    \* invocation -> currentCar, the index of the record in hand
    blk,           \* invocation -> block index -> state of the forEach callback
    \* history of the run, not read by the code
    sightings,     \* the blocks the callback was called with, in call order
    firstWrite,    \* cid -> type and data of the write that created its item
    skipped,       \* <<invocation, record>> found completed by main
    storeLog,      \* <<invocation, record, operation>> for store reads, stream
                   \* opens and store writes
    failures       \* <<invocation, record>> at which an error left main

mvars == <<carsTable, blocksTable, event, pc, currentCar, blk, sightings,
           firstWrite, skipped, storeLog, failures>>

NoSnapshot == [queueLen |-> 0, running |-> 0, cbPending |-> 0, failed |-> FALSE]

\* The mutable part of the closure, as a record the handlers transform.
St ==
    [queue |-> queue, running |-> running, error |-> error,
     resolveSet |-> resolveSet, endJobs |-> endJobs, status |-> status,
     started |-> started, cbCalls |-> cbCalls, cbPending |-> cbPending,
     donePromise |-> donePromise, doneValue |-> doneValue,
     atResolve |-> atResolve]

Commit(s) ==
    /\ queue' = s.queue
    /\ running' = s.running
    /\ error' = s.error
    /\ resolveSet' = s.resolveSet
    /\ endJobs' = s.endJobs
    /\ status' = s.status
    /\ started' = s.started
    /\ cbCalls' = s.cbCalls
    /\ cbPending' = s.cbPending
    /\ donePromise' = s.donePromise
    /\ doneValue' = s.doneValue
    /\ atResolve' = s.atResolve

Range(f) == {f[i] : i \in DOMAIN f}

\* `if (error)`
ErrorSet(e) == e # Undefined

\* off by one in the capacity test: `running > concurrency`
AtCapacityOffByOne(r, c) == r > c

\* `running >= concurrency`
AtCapacity(r, c) == r >= c

\* `_resolve && _resolve({ error })`: settles the promise of the latest
\* done() with the current error; a promise already resolved keeps its value.
Resolve(s) ==
    IF s.resolveSet /\ s.donePromise = "pending"
    THEN [s EXCEPT !.donePromise = "resolved",
                   !.doneValue = s.error,
                   !.atResolve = [queueLen |-> Len(s.queue),
                                  running |-> s.running,
                                  cbPending |-> Cardinality(s.cbPending),
                                  failed |-> \E t \in Tasks : s.status[t] = "failed"]]
    ELSE s

\* _end
End(s) ==
    IF onTaskComplete
    THEN [s EXCEPT !.endJobs = Append(@, Range(taskCompleted))]
    ELSE Resolve(s)

\* the task is read with _queue[0] instead of _queue.shift()
StartTaskNoShift(s) ==
    LET f == Head(s.queue) IN
    [s EXCEPT !.running = @ + 1,
              !.status[f] = "running",
              !.started = Append(@, f)]

\* the task is taken with _queue.pop() instead of _queue.shift()
StartTaskLast(s) ==
    LET f == s.queue[Len(s.queue)] IN
    [s EXCEPT !.queue = SubSeq(@, 1, Len(@) - 1),
              !.running = @ + 1,
              !.status[f] = "running",
              !.started = Append(@, f)]

\* the body of run() from `running++` to the call f()
StartTask(s) ==
    LET f == Head(s.queue) IN
    [s EXCEPT !.queue = Tail(@),
              !.running = @ + 1,
              !.status[f] = "running",
              !.started = Append(@, f)]

RECURSIVE Run(_)
RECURSIVE Done(_)

\* _done without its `if (error)` branch
DoneIgnoringError(s) ==
    IF Len(s.queue) > 0 THEN Run(s)
    ELSE IF s.running = 0 THEN End(s)
    ELSE s

\* _done
Done(s) ==
    IF ErrorSet(s.error) THEN End(s)
    ELSE IF Len(s.queue) > 0 THEN Run(s)
    ELSE IF s.running = 0 THEN End(s)
    ELSE s

\* run, up to its first await
Run(s) ==
    IF AtCapacity(s.running, concurrency) THEN s
    ELSE IF s.queue = <<>> THEN Done(s)
    ELSE StartTask(s)

\* `catch (err) { error = err }`
Catch(s, err) == [s EXCEPT !.error = err]

\* the callback guarded by the error: `!error && onTaskComplete && ...`
CallbackUnlessError(s, result) ==
    IF onTaskComplete /\ ~ErrorSet(s.error)
    THEN [s EXCEPT !.cbCalls = Append(@, result),
                   !.cbPending = @ \cup {Len(s.cbCalls) + 1}]
    ELSE s

\* `onTaskComplete && onTaskComplete(result)`: the invocation returns a
\* promise that settles later; the promise is not kept anywhere.
Callback(s, result) ==
    IF onTaskComplete
    THEN [s EXCEPT !.cbCalls = Append(@, result),
                   !.cbPending = @ \cup {Len(s.cbCalls) + 1}]
    ELSE s

\* the finally block without its call of _done
FinallyWithoutDone(s) == [s EXCEPT !.running = @ - 1]

\* `finally { running--; _done() }`
Finally(s) == Done([s EXCEPT !.running = @ - 1])

(***************************************************************************)
(* queuedTasks: operations                                                 *)
(***************************************************************************)
QStart(limits, callbacks) ==
    /\ concurrency \in limits
    /\ onTaskComplete \in callbacks
    /\ queue = <<>>
    /\ taskCompleted = <<>>
    /\ running = 0
    /\ error = Undefined
    /\ resolveSet = FALSE
    /\ endJobs = <<>>
    /\ status = [t \in Tasks |-> "new"]
    /\ started = <<>>
    /\ settled = <<>>
    /\ cbCalls = <<>>
    /\ cbPending = {}
    /\ nAdded = 0
    /\ nRunCalls = 0
    /\ firstError = Undefined
    /\ donePromise = "none"
    /\ doneValue = Undefined
    /\ doneCalls = 0
    /\ doneAfterFailure = FALSE
    /\ atResolve = NoSnapshot

\* add(f), f being the next task
Add ==
    /\ nAdded < MaxTasks
    /\ LET f == nAdded + 1 IN
        /\ nAdded' = f
        /\ IF ErrorSet(error)
           THEN Commit([St EXCEPT !.status[f] = "discarded"])
           ELSE Commit(Run([St EXCEPT !.queue = Append(@, f),
                                      !.status[f] = "queued"]))
    /\ UNCHANGED mvars
    /\ UNCHANGED <<concurrency, onTaskComplete, taskCompleted, settled,
                   nRunCalls, firstError, doneCalls, doneAfterFailure>>

\* run() called through the returned object
RunCall ==
    /\ nRunCalls < MaxRunCalls
    /\ nRunCalls' = nRunCalls + 1
    /\ Commit(Run(St))
    /\ UNCHANGED mvars
    /\ UNCHANGED <<concurrency, onTaskComplete, taskCompleted, settled,
                   nAdded, firstError, doneCalls, doneAfterFailure>>

\* the promise of the running task f fulfils: run() resumes after its await
TaskFulfils(f) ==
    /\ status[f] = "running"
    /\ settled' = Append(settled, f)
    /\ Commit(Finally(Callback([St EXCEPT !.status[f] = "ok"], f)))
    /\ UNCHANGED mvars
    /\ UNCHANGED <<concurrency, onTaskComplete, taskCompleted, nAdded,
                   nRunCalls, firstError, doneCalls, doneAfterFailure>>

\* the promise of the running task f rejects: run() resumes in its catch
TaskRejects(f) ==
    /\ status[f] = "running"
    /\ settled' = Append(settled, f)
    /\ firstError' = IF firstError = Undefined THEN f ELSE firstError
    /\ Commit(Finally(Catch([St EXCEPT !.status[f] = "failed"], f)))
    /\ UNCHANGED mvars
    /\ UNCHANGED <<concurrency, onTaskComplete, taskCompleted, nAdded,
                   nRunCalls, doneCalls, doneAfterFailure>>

\* done(); one caller at a time
DoneCall ==
    /\ doneCalls < MaxDoneCalls
    /\ donePromise # "pending"
    /\ doneCalls' = doneCalls + 1
    /\ doneAfterFailure' = (firstError # Undefined)
    /\ Commit(Done([St EXCEPT !.resolveSet = TRUE,
                              !.donePromise = "pending",
                              !.doneValue = Undefined,
                              !.atResolve = NoSnapshot]))
    /\ UNCHANGED mvars
    /\ UNCHANGED <<concurrency, onTaskComplete, taskCompleted, settled,
                   nAdded, nRunCalls, firstError>>

\* the reaction `() => { _resolve && _resolve({ error }) }` of a
\* Promise.allSettled(taskCompleted) runs once all its promises have settled
EndJob(i) ==
    /\ i \in DOMAIN endJobs
    /\ endJobs[i] \cap cbPending = {}
    /\ Commit(Resolve([St EXCEPT !.endJobs =
                          SubSeq(endJobs, 1, i - 1) \o
                          SubSeq(endJobs, i + 1, Len(endJobs))]))
    /\ UNCHANGED mvars
    /\ UNCHANGED <<concurrency, onTaskComplete, taskCompleted, settled,
                   nAdded, nRunCalls, firstError, doneCalls, doneAfterFailure>>

\* the promise returned by the k-th onTaskComplete invocation settles
CallbackSettles(k) ==
    /\ k \in cbPending
    /\ cbPending' = cbPending \ {k}
    /\ UNCHANGED mvars
    /\ UNCHANGED <<concurrency, onTaskComplete, queue, taskCompleted, running,
                   error, resolveSet, endJobs, status, started, settled,
                   cbCalls, nAdded, nRunCalls, firstError, donePromise,
                   doneValue, doneCalls, doneAfterFailure, atResolve>>

QNext ==
    \/ Add
    \/ RunCall
    \/ \E f \in Tasks : TaskFulfils(f)
    \/ \E f \in Tasks : TaskRejects(f)
    \/ DoneCall
    \/ \E i \in 1..(2 * MaxTasks + MaxDoneCalls + MaxRunCalls) : EndJob(i)
    \/ \E k \in 1..MaxTasks : CallbackSettles(k)


(***************************************************************************)
(* main: inputs                                                            *)
(***************************************************************************)
MaxInvocations == 2
\* records over all invocations together
MaxRecords == 2

\* hwp's forEach(iterator, fn, n = 16) keeps up to n calls of fn in flight;
\* main calls it without n.
HwpConcurrency == 16

Invocations == 1..MaxInvocations

\* The archives main can be given, by car id (ids are ordered as
\* localeCompare orders them).  A block is what the indexer yields: its cid,
\* blockOffset, blockLength and data ("" when the block carries no data).
\* The same cid occurs in several archives, twice in archive 2, and with
\* and without data.
Archives ==
    << << [cid |-> "a", blockOffset |-> 10, blockLength |-> 4, data |-> "pa"],
          [cid |-> "b", blockOffset |-> 20, blockLength |-> 2, data |-> ""] >>,
       << [cid |-> "a", blockOffset |-> 5, blockLength |-> 4, data |-> ""],
          [cid |-> "a", blockOffset |-> 15, blockLength |-> 4, data |-> "pa"] >>,
       << [cid |-> "b", blockOffset |-> 20, blockLength |-> 2, data |-> ""],
          [cid |-> "c", blockOffset |-> 30, blockLength |-> 3, data |-> "pc"] >> >>

Cars == DOMAIN Archives
CIDs == {"a", "b", "c"}

\* block.cid.code, and the registry `codecs` (code -> label; "" when the
\* code is not registered)
CodeOf(cid) == CASE cid = "a" -> "0x70" [] cid = "b" -> "0x55" [] OTHER -> "0x99"
Codecs(code) == CASE code = "0x70" -> "dag-pb" [] code = "0x55" -> "raw" [] OTHER -> ""

Events == UNION {[1..n -> Cars] : n \in 1..MaxRecords}


NoCar == [exists |-> FALSE, completed |-> FALSE, createdAt |-> <<>>,
          durationTime |-> FALSE]
NoBlock == [exists |-> FALSE, type |-> "", createdAt |-> <<>>, cars |-> <<>>,
            data |-> <<>>]
NoStep == [st |-> "wait", found |-> NoBlock]

\* readDynamoItem
ReadItem(table, id) == table[id]

\* writeDynamoItem(true, ...): the item becomes exactly the given one
PutItem(table, id, item) == [table EXCEPT ![id] = item]

\* writeDynamoItem(false, table, key, id, { cars })
UpdateCars(table, id, cars) ==
    [table EXCEPT ![id] = [@ EXCEPT !.exists = TRUE, !.cars = cars]]

\* writeDynamoItem(false, table, key, id, { currentPosition, completed, durationTime })
UpdateCompleted(table, id) ==
    [table EXCEPT ![id] = [@ EXCEPT !.exists = TRUE, !.completed = TRUE,
                                    !.durationTime = TRUE]]

\* the car of the record in hand
CarOf(i) == event[i][currentCar[i]]
BlocksOf(i) == Archives[CarOf(i)]

\* decodeBlock: "" for the thrown `Unsupported codec`, else codec and data;
\* a dag codec has its Data replaced by the unixfs { type, blocks }
DecodeBlock(block) ==
    LET label == Codecs(CodeOf(block.cid)) IN
    IF label = "" THEN [ok |-> FALSE, codec |-> "", data |-> <<>>]
    ELSE IF SubSeq(label, 1, 3) = "dag"
         THEN [ok |-> TRUE, codec |-> label, data |-> <<label, "unixfs", block.data>>]
         ELSE [ok |-> TRUE, codec |-> label, data |-> <<label, block.data>>]

\* the item storeNewBlock writes
NewBlockItem(car, type, block, data, at) ==
    [exists |-> TRUE, type |-> type, createdAt |-> at,
     cars |-> << [car |-> car, offset |-> block.blockOffset,
                  length |-> block.blockLength] >>,
     data |-> data]

\* the comparator of cars.sort: a sorts before or with b
CarsInOrder(a, b) ==
    IF a.offset # b.offset THEN a.offset < b.offset ELSE a.car <= b.car

RECURSIVE InsertCar(_, _)
\* stable insertion of e into the sorted list
InsertCar(list, e) ==
    IF list = <<>> THEN <<e>>
    ELSE IF CarsInOrder(Head(list), e) THEN <<Head(list)>> \o InsertCar(Tail(list), e)
    ELSE <<e>> \o list

RECURSIVE SortCars(_)
\* cars.sort(comparator)
SortCars(list) ==
    IF list = <<>> THEN <<>>
    ELSE InsertCar(SortCars(SubSeq(list, 1, Len(list) - 1)), list[Len(list)])

\* cars.push(...) without the sort
AppendedCarsUnsorted(cars, carId, block) ==
    Append(cars, [car |-> carId, offset |-> block.blockOffset,
                  length |-> block.blockLength])

\* appendCarToBlock: the list it writes
AppendedCars(cars, carId, block) ==
    SortCars(Append(cars, [car |-> carId, offset |-> block.blockOffset,
                           length |-> block.blockLength]))

\* the skip test dropped: a completed archive is analyzed again
NeverSkip(existingCar) == FALSE

\* `existingCar?.completed`
ShouldSkip(existingCar) == existingCar.exists /\ existingCar.completed

RECURSIVE SumLen(_)
SumLen(i) == IF i = 0 THEN 0 ELSE Len(event[i]) + SumLen(i - 1)

\* the records of the events main has been called with so far
RecordsGiven == SumLen(MaxInvocations)

\* main is between two records: take the next one or return
NextRecord(i) ==
    IF currentCar[i] < Len(event[i])
    THEN /\ currentCar' = [currentCar EXCEPT ![i] = @ + 1]
         /\ pc' = [pc EXCEPT ![i] = "readCar"]
    ELSE /\ pc' = [pc EXCEPT ![i] = "finished"]
         /\ UNCHANGED currentCar

Here(i) == <<i, currentCar[i]>>

\* the error is caught and the loop goes on with the next record
FailAndContinue(i) ==
    /\ failures' = failures \cup {Here(i)}
    /\ NextRecord(i)

\* the error leaves main: the loop over the records is over
Fail(i) ==
    /\ pc' = [pc EXCEPT ![i] = "failed"]
    /\ failures' = failures \cup {Here(i)}
    /\ UNCHANGED currentCar

(***************************************************************************)
(* main: operations                                                        *)
(***************************************************************************)
MStart ==
    /\ carsTable = [c \in Cars |-> NoCar]
    /\ blocksTable = [c \in CIDs |-> NoBlock]
    /\ event = [i \in Invocations |-> <<>>]
    /\ pc = [i \in Invocations |-> "idle"]
    /\ currentCar = [i \in Invocations |-> 0]
    /\ blk = [i \in Invocations |-> <<>>]
    /\ sightings = <<>>
    /\ firstWrite = [c \in CIDs |-> NoBlock]
    /\ skipped = {}
    /\ storeLog = {}
    /\ failures = {}

\* a queue with any options, and empty tables
QInit == QStart(1..MaxConcurrency, BOOLEAN) /\ MStart

\* empty tables, and a queue with the default options
MInit == QStart({1}, {FALSE}) /\ MStart

\* no callback of invocation j is between its call and its last store operation
Settled(j) == \A b \in DOMAIN blk[j] : blk[j][b].st \notin {"lookup", "write"}

\* main(event) is called once the previous call has returned or thrown and
\* the store operations it left in flight are over; currentCar++ for the
\* first record
StartMain(i, ev) ==
    /\ pc[i] = "idle"
    /\ \A j \in Invocations : j < i => pc[j] \in {"finished", "failed"} /\ Settled(j)
    /\ Len(ev) + RecordsGiven <= MaxRecords
    /\ event' = [event EXCEPT ![i] = ev]
    /\ currentCar' = [currentCar EXCEPT ![i] = 1]
    /\ pc' = [pc EXCEPT ![i] = "readCar"]
    /\ UNCHANGED qvars
    /\ UNCHANGED <<carsTable, blocksTable, blk, sightings, firstWrite,
                   skipped, storeLog, failures>>

\* main(event) is called while earlier calls may still be running: the
\* handler is invoked once per event and nothing orders two invocations
StartMainConcurrent(i, ev) ==
    /\ pc[i] = "idle"
    /\ \A j \in Invocations : j < i => pc[j] # "idle"
    /\ Len(ev) + RecordsGiven <= MaxRecords
    /\ event' = [event EXCEPT ![i] = ev]
    /\ currentCar' = [currentCar EXCEPT ![i] = 1]
    /\ pc' = [pc EXCEPT ![i] = "readCar"]
    /\ UNCHANGED qvars
    /\ UNCHANGED <<carsTable, blocksTable, blk, sightings, firstWrite,
                   skipped, storeLog, failures>>

\* `existingCar = await readDynamoItem(carsTable, ...)` and the skip test
ReadCar(i) ==
    /\ pc[i] = "readCar"
    /\ \/ LET existingCar == ReadItem(carsTable, CarOf(i)) IN
          /\ IF ShouldSkip(existingCar)
             THEN NextRecord(i)
             ELSE pc' = [pc EXCEPT ![i] = "open"] /\ UNCHANGED currentCar
          /\ skipped' = IF existingCar.exists /\ existingCar.completed
                        THEN skipped \cup {Here(i)} ELSE skipped
          /\ UNCHANGED failures
       \/ Fail(i) /\ UNCHANGED skipped
    /\ storeLog' = storeLog \cup {<<i, currentCar[i], "readCar">>}
    /\ UNCHANGED qvars
    /\ UNCHANGED <<carsTable, blocksTable, event, blk, sightings, firstWrite>>

\* `indexer = await openS3Stream(car)`
OpenStream(i) ==
    /\ pc[i] = "open"
    /\ \/ /\ pc' = [pc EXCEPT ![i] = "writeCar"]
          /\ storeLog' = storeLog \cup {<<i, currentCar[i], "open">>}
          /\ UNCHANGED <<currentCar, failures>>
       \/ Fail(i) /\ UNCHANGED storeLog
    /\ UNCHANGED qvars
    /\ UNCHANGED <<carsTable, blocksTable, event, blk, sightings,
                   firstWrite, skipped>>

\* the archive record is written and the loop goes on to the next record
\* without ingesting the blocks
WriteCarAndContinue(i) ==
    /\ pc[i] = "writeCar"
    /\ carsTable' = PutItem(carsTable, CarOf(i),
                            [exists |-> TRUE, completed |-> FALSE,
                             createdAt |-> Here(i), durationTime |-> FALSE])
    /\ storeLog' = storeLog \cup {<<i, currentCar[i], "car">>}
    /\ NextRecord(i)
    /\ UNCHANGED qvars
    /\ UNCHANGED <<blocksTable, event, blk, sightings, firstWrite, skipped,
                   failures>>

\* `await writeDynamoItem(true, carsTable, ..., { ..., completed: false })`,
\* then forEach is entered
WriteCar(i) ==
    /\ pc[i] = "writeCar"
    /\ \/ /\ carsTable' = PutItem(carsTable, CarOf(i),
                                  [exists |-> TRUE, completed |-> FALSE,
                                   createdAt |-> Here(i), durationTime |-> FALSE])
          /\ storeLog' = storeLog \cup {<<i, currentCar[i], "car">>}
          /\ pc' = [pc EXCEPT ![i] = "blocks"]
          /\ blk' = [blk EXCEPT ![i] = [b \in DOMAIN BlocksOf(i) |-> NoStep]]
          /\ UNCHANGED <<currentCar, failures>>
       \/ Fail(i) /\ UNCHANGED <<carsTable, storeLog, blk>>
    /\ UNCHANGED qvars
    /\ UNCHANGED <<blocksTable, event, sightings, firstWrite, skipped>>

\* forEach calls the callback with the next block of the stream while fewer
\* than n calls are in flight and none has failed; the callback issues its
\* readDynamoItem
StartBlock(i, b) ==
    /\ pc[i] = "blocks"
    /\ b \in DOMAIN blk[i]
    /\ blk[i][b].st = "wait"
    /\ \A k \in DOMAIN blk[i] : k < b => blk[i][k].st # "wait"
    /\ Cardinality({k \in DOMAIN blk[i] : blk[i][k].st \in {"lookup", "write"}})
          < HwpConcurrency
    /\ blk' = [blk EXCEPT ![i][b].st = "lookup"]
    /\ sightings' = Append(sightings, [cid |-> BlocksOf(i)[b].cid,
                                       car |-> CarOf(i),
                                       offset |-> BlocksOf(i)[b].blockOffset,
                                       length |-> BlocksOf(i)[b].blockLength])
    /\ UNCHANGED qvars
    /\ UNCHANGED <<carsTable, blocksTable, event, pc, currentCar, firstWrite,
                   skipped, storeLog, failures>>

\* `existingBlock = await readDynamoItem(blocksTable, ...)` returns or throws
LookupBlock(i, b) ==
    /\ b \in DOMAIN blk[i]
    /\ blk[i][b].st = "lookup"
    /\ \/ /\ blk' = [blk EXCEPT ![i][b] =
                        [st |-> "write",
                         found |-> ReadItem(blocksTable, BlocksOf(i)[b].cid)]]
          /\ UNCHANGED <<pc, currentCar, failures>>
       \/ /\ blk' = [blk EXCEPT ![i][b].st = "failed"]
          /\ Fail(i)
    /\ storeLog' = storeLog \cup {<<i, currentCar[i], "readBlock">>}
    /\ UNCHANGED qvars
    /\ UNCHANGED <<carsTable, blocksTable, event, sightings, firstWrite, skipped>>

\* the write made on the item as it is in the table at the time of the
\* write, as a transaction or a conditional update would make it
BlockWriteOnCurrent(i, b) ==
    LET block == BlocksOf(i)[b]
        current == blocksTable[block.cid]
        decoded == DecodeBlock(block)
        at == <<i, currentCar[i], b>>
    IN  IF current.exists
        THEN UpdateCars(blocksTable, block.cid,
                        AppendedCars(current.cars, CarOf(i), block))
        ELSE IF block.data = ""
        THEN PutItem(blocksTable, block.cid,
                     NewBlockItem(CarOf(i), "raw", block, <<>>, at))
        ELSE PutItem(blocksTable, block.cid,
                     NewBlockItem(CarOf(i), decoded.codec, block, decoded.data, at))

\* the item the callback writes for block b after its lookup, or NoBlock when
\* decodeBlock throws
BlockWrite(i, b) ==
    LET block == BlocksOf(i)[b]
        existingBlock == blk[i][b].found
        decoded == DecodeBlock(block)
        at == <<i, currentCar[i], b>>
    IN  IF existingBlock.exists
        THEN UpdateCars(blocksTable, block.cid,
                        AppendedCars(existingBlock.cars, CarOf(i), block))
        ELSE IF block.data = ""
        THEN PutItem(blocksTable, block.cid,
                     NewBlockItem(CarOf(i), "raw", block, <<>>, at))
        ELSE IF decoded.ok
        THEN PutItem(blocksTable, block.cid,
                     NewBlockItem(CarOf(i), decoded.codec, block, decoded.data, at))
        ELSE blocksTable

\* decodeBlock throws for block b
DecodeThrows(i, b) ==
    /\ ~blk[i][b].found.exists
    /\ BlocksOf(i)[b].data # ""
    /\ ~DecodeBlock(BlocksOf(i)[b]).ok

\* the rest of the callback: appendCarToBlock, or decodeBlock and
\* storeNewBlock; the write is done or throws
WriteBlock(i, b) ==
    /\ b \in DOMAIN blk[i]
    /\ blk[i][b].st = "write"
    /\ \/ /\ ~DecodeThrows(i, b)
          /\ blocksTable' = BlockWrite(i, b)
          /\ firstWrite' =
                LET cid == BlocksOf(i)[b].cid IN
                IF ~blocksTable[cid].exists
                THEN [firstWrite EXCEPT ![cid] = blocksTable'[cid]]
                ELSE firstWrite
          /\ storeLog' = storeLog \cup {<<i, currentCar[i], "block">>}
          /\ blk' = [blk EXCEPT ![i][b].st = "done"]
          /\ UNCHANGED <<pc, currentCar, failures>>
       \/ /\ blk' = [blk EXCEPT ![i][b].st = "failed"]
          /\ Fail(i)
          /\ UNCHANGED <<blocksTable, firstWrite, storeLog>>
    /\ UNCHANGED qvars
    /\ UNCHANGED <<carsTable, event, sightings, skipped>>

\* forEach is not awaited: completed: true is written while block steps are
\* still to run
CompleteCarEarly(i) ==
    /\ pc[i] = "blocks"
    /\ carsTable' = UpdateCompleted(carsTable, CarOf(i))
    /\ storeLog' = storeLog \cup {<<i, currentCar[i], "completed">>}
    /\ NextRecord(i)
    /\ UNCHANGED qvars
    /\ UNCHANGED <<blocksTable, event, blk, sightings, firstWrite, skipped,
                   failures>>

\* forEach has resolved: `await writeDynamoItem(false, carsTable, ...,
\* { ..., completed: true })`, then the next record
CompleteCar(i) ==
    /\ pc[i] = "blocks"
    /\ \A b \in DOMAIN blk[i] : blk[i][b].st = "done"
    /\ \/ /\ carsTable' = UpdateCompleted(carsTable, CarOf(i))
          /\ storeLog' = storeLog \cup {<<i, currentCar[i], "completed">>}
          /\ NextRecord(i)
          /\ UNCHANGED failures
       \/ Fail(i) /\ UNCHANGED <<carsTable, storeLog>>
    /\ UNCHANGED qvars
    /\ UNCHANGED <<blocksTable, event, blk, sightings, firstWrite, skipped>>

MNext ==
    \/ \E i \in Invocations, ev \in Events : StartMain(i, ev)
    \/ \E i \in Invocations : ReadCar(i)
    \/ \E i \in Invocations : OpenStream(i)
    \/ \E i \in Invocations : WriteCar(i)
    \/ \E i \in Invocations : \E b \in DOMAIN blk[i] : StartBlock(i, b)
    \/ \E i \in Invocations : \E b \in DOMAIN blk[i] : LookupBlock(i, b)
    \/ \E i \in Invocations : \E b \in DOMAIN blk[i] : WriteBlock(i, b)
    \/ \E i \in Invocations : CompleteCar(i)

MNextConcurrent ==
    \/ \E i \in Invocations, ev \in Events : StartMainConcurrent(i, ev)
    \/ \E i \in Invocations : ReadCar(i)
    \/ \E i \in Invocations : OpenStream(i)
    \/ \E i \in Invocations : WriteCar(i)
    \/ \E i \in Invocations : \E b \in DOMAIN blk[i] : StartBlock(i, b)
    \/ \E i \in Invocations : \E b \in DOMAIN blk[i] : LookupBlock(i, b)
    \/ \E i \in Invocations : \E b \in DOMAIN blk[i] : WriteBlock(i, b)
    \/ \E i \in Invocations : CompleteCar(i)

vars == <<qvars, mvars>>

\* the queue alone, main never called
SpecQ == QInit /\ [][QNext]_vars

\* the queue when every running task settles at some time and every queued
\* promise reaction is run
SpecQFair ==
    /\ SpecQ
    /\ \A f \in Tasks : WF_vars(TaskFulfils(f) \/ TaskRejects(f))
    /\ WF_vars(\E i \in 1..(2 * MaxTasks + MaxDoneCalls + MaxRunCalls) : EndJob(i))

\* main alone, one invocation after the other, the queue never used
SpecMain == MInit /\ [][MNext]_vars

\* invocations of main that may overlap
SpecConcurrent == MInit /\ [][MNextConcurrent]_vars

(***************************************************************************)
(* queuedTasks: claims                                                     *)
(***************************************************************************)
NoTaskFailed == \A t \in Tasks : status[t] # "failed"

\* C1: the running counter is the number of tasks started and not yet
\* settled, and it stays between 0 and the concurrency limit.
RunningWithinLimit ==
    /\ running >= 0
    /\ running <= concurrency
    /\ running = Cardinality({t \in Tasks : status[t] = "running"})

\* the limit is reached with a task waiting behind it
RunningAtLimitWitness ==
    /\ concurrency = 2
    /\ running = concurrency
    /\ Len(queue) > 0

\* C2: from the step in which a task fails onwards, every step other than a
\* direct run() call (add(), a task settling, done(), a deferred resolve)
\* starts no task and leaves the pending queue as it is: a task added after
\* the failure is not queued, queued tasks are not dequeued.
NoStartAfterFailure ==
    [][(firstError' # Undefined /\ nRunCalls' = nRunCalls)
          => (started' = started /\ queue' = queue)]_vars

\* after a failure with every running task settled: a task still queued and
\* a task discarded by add()
NoStartAfterFailureWitness ==
    /\ firstError # Undefined
    /\ running = 0
    /\ Len(queue) > 0
    /\ \E t \in Tasks : status[t] = "discarded"
    /\ nRunCalls = 0

\* C3: the stored error is the error of the first task that failed, and a
\* done() called after the first failure resolves with that error.
FirstErrorReported ==
    /\ ErrorSet(error) => error = firstError
    /\ (donePromise = "resolved" /\ doneAfterFailure) => doneValue = firstError

\* C4: when the promise of done() resolves, the pending queue is empty and
\* no task is running.
ResolvesWhenIdle ==
    donePromise = "resolved" => (atResolve.queueLen = 0 /\ atResolve.running = 0)

\* C5: when the promise of done() resolves, no onTaskComplete invocation is
\* still pending.
ResolvesAfterCallbacks ==
    donePromise = "resolved" => atResolve.cbPending = 0

\* C6: while no task has failed, every added task is queued, running or
\* finished, each started task was started once, no task waits while a slot
\* is free, onTaskComplete has been called once per settled task with its
\* result in completion order, and done() resolves with error undefined.
AllTasksRunOnce ==
    NoTaskFailed =>
        /\ \A t \in Tasks :
              status[t] = (IF t > nAdded THEN "new"
                           ELSE IF t \in Range(queue) THEN "queued"
                           ELSE IF t \in Range(settled) THEN "ok"
                           ELSE "running")
        /\ \A i, j \in DOMAIN started : started[i] = started[j] => i = j
        /\ Range(started) = {t \in Tasks : status[t] \in {"running", "ok"}}
        /\ running < concurrency => queue = <<>>
        /\ cbCalls = (IF onTaskComplete THEN settled ELSE <<>>)
        /\ donePromise = "resolved" => doneValue = Undefined

\* three tasks under concurrency 2 finished out of order, callback called
\* for each, done() resolved
AllTasksRunOnceWitness ==
    /\ NoTaskFailed
    /\ concurrency = 2
    /\ onTaskComplete
    /\ \A t \in Tasks : status[t] = "ok"
    /\ settled # started
    /\ Len(cbCalls) = MaxTasks
    /\ donePromise = "resolved"

\* C14: tasks are started in the order they were passed to add(): the
\* sequence of started tasks is increasing in the add() number.
StartedInAddOrder ==
    \A i, j \in DOMAIN started : i < j => started[i] < started[j]

\* three tasks started under concurrency 2, the second settled before the first
StartedInAddOrderWitness ==
    /\ concurrency = 2
    /\ Len(started) = MaxTasks
    /\ Len(settled) >= 2
    /\ settled[1] > settled[2]

\* the fulfilled tasks, in the order they settled
FulfilledInOrder == SelectSeq(settled, LAMBDA t : status[t] = "ok")

\* C15: a task running when the first failure is captured stays running
\* until its own promise settles, and onTaskComplete is called with the
\* result of every task that fulfils, also after the error is set and after
\* done() has resolved.
RunningTasksFinish ==
    /\ onTaskComplete => cbCalls = FulfilledInOrder
    /\ \A t \in Tasks :
          (t \in Range(started) /\ t \notin Range(settled)) => status[t] = "running"

\* done() resolved with the error while a task was running; that task
\* fulfilled afterwards and its result reached onTaskComplete
RunningTasksFinishWitness ==
    /\ onTaskComplete
    /\ donePromise = "resolved"
    /\ doneValue # Undefined
    /\ atResolve.running > 0
    /\ Len(settled) = 2
    /\ status[settled[1]] = "failed"
    /\ status[settled[2]] = "ok"
    /\ cbCalls = <<settled[2]>>

\* C20: when every running task settles at some time, the promise of a
\* done() call is resolved at some time.
DoneResolves == (donePromise = "pending") ~> (donePromise = "resolved")

\* done() resolved on a failed queue that still holds a task
DoneResolvesWitness ==
    /\ donePromise = "resolved"
    /\ atResolve.failed
    /\ atResolve.queueLen > 0
    /\ onTaskComplete

(***************************************************************************)
(* main: claims                                                            *)
(***************************************************************************)
\* how often x occurs in the sequence q
Count(q, x) == Cardinality({k \in DOMAIN q : q[k] = x})

CarEntry(sighting) ==
    [car |-> sighting.car, offset |-> sighting.offset, length |-> sighting.length]

\* the {car, offset, length} entries of the sightings of cid, in call order
SightingsOf(cid) ==
    LET RECURSIVE Pick(_)
        Pick(k) == IF k = 0 THEN <<>>
                   ELSE IF sightings[k].cid = cid
                        THEN Append(Pick(k - 1), CarEntry(sightings[k]))
                        ELSE Pick(k - 1)
    IN Pick(Len(sightings))

\* every call of main so far has returned without failure
AllFinished ==
    /\ \E i \in Invocations : pc[i] = "finished"
    /\ \A i \in Invocations : pc[i] \in {"idle", "finished"}

\* C7: the type and data of a block item are those of the write that created
\* it, whatever block steps came later.
TypeAndDataKept ==
    \A cid \in CIDs :
        blocksTable[cid].exists =>
            /\ blocksTable[cid].type = firstWrite[cid].type
            /\ blocksTable[cid].data = firstWrite[cid].data

\* C8: once main has finished its batches without failure, the cars list of
\* every cid holds each observed {car, offset, length} as often as it was
\* sighted, and nothing else.
CarsListComplete ==
    AllFinished =>
        \A cid \in CIDs :
            /\ Len(blocksTable[cid].cars) = Len(SightingsOf(cid))
            /\ \A k \in DOMAIN SightingsOf(cid) :
                  Count(blocksTable[cid].cars, SightingsOf(cid)[k])
                      = Count(SightingsOf(cid), SightingsOf(cid)[k])

\* C9: every cars list is sorted by offset, ties by car id, ascending.
CarsListSorted ==
    \A cid \in CIDs :
        LET cars == blocksTable[cid].cars IN
        \A k \in 1..(Len(cars) - 1) :
            \/ cars[k].offset < cars[k + 1].offset
            \/ cars[k].offset = cars[k + 1].offset /\ cars[k].car <= cars[k + 1].car

\* cid "a" was sighted in archive 1 at offset 10 first and in archive 2 at
\* offset 5 afterwards, and its list starts with archive 2
CarsListSortedWitness ==
    /\ Len(sightings) >= 2
    /\ sightings[1] = [cid |-> "a", car |-> 1, offset |-> 10, length |-> 4]
    /\ Len(blocksTable["a"].cars) = 2
    /\ blocksTable["a"].cars[1] = [car |-> 2, offset |-> 5, length |-> 4]
    /\ blocksTable["a"].cars[2] = [car |-> 1, offset |-> 10, length |-> 4]

\* C10: for a record whose archive main found completed, that invocation
\* opened no stream and wrote to neither table.
SkipWritesNothing ==
    \A i \in Invocations : \A k \in 1..MaxRecords :
        <<i, k>> \in skipped =>
            \A op \in {"open", "car", "readBlock", "block", "completed"} :
                <<i, k, op>> \notin storeLog

\* main has returned after skipping a completed archive
SkipWritesNothingWitness ==
    \E i \in Invocations :
        /\ pc[i] = "finished"
        /\ \E k \in 1..MaxRecords : <<i, k>> \in skipped

\* some block step of the record invocation i is at has failed
BlockStepFailed(i) ==
    /\ pc[i] # "idle"
    /\ \E b \in DOMAIN blk[i] : blk[i][b].st = "failed"

\* the step sets completed = true on archive c
Completes(c) == carsTable'[c].completed /\ ~carsTable[c].completed

\* invocation i has taken every block of its archive through its step
StreamExhausted(i) ==
    /\ pc[i] = "blocks"
    /\ DOMAIN blk[i] = DOMAIN BlocksOf(i)
    /\ \A b \in DOMAIN blk[i] : blk[i][b].st = "done"

\* C11: completed = true is written on an archive only by an invocation that
\* has taken every block of the archive through its step without failure; and
\* while an invocation whose block step failed is the latest one, the record
\* of its archive exists with completed = false.
CompletedOnlyAfterAllBlocks ==
    /\ [][\A c \in Cars :
            Completes(c) =>
                \E i \in Invocations :
                    /\ StreamExhausted(i)
                    /\ CarOf(i) = c
                    /\ pc'[i] # "blocks"]_vars
    /\ [](\A i \in Invocations :
            (BlockStepFailed(i) /\ \A j \in Invocations : j > i => pc[j] = "idle")
                => /\ carsTable[CarOf(i)].exists
                   /\ ~carsTable[CarOf(i)].completed)

\* a block step failed after another block of the archive was stored
CompletedOnlyAfterAllBlocksWitness ==
    /\ pc[1] = "failed"
    /\ \E b \in DOMAIN blk[1] : blk[1][b].st = "failed"
    /\ \E b \in DOMAIN blk[1] : blk[1][b].st = "done"
    /\ carsTable[CarOf(1)].exists
    /\ ~carsTable[CarOf(1)].completed

\* C12: once an error has left main at record k, the invocation has failed
\* there and no store read, stream open or store write is ever made for a
\* record after k of its batch.
NothingAfterFailure ==
    \A f \in failures :
        /\ pc[f[1]] = "failed"
        /\ currentCar[f[1]] = f[2]
        /\ \A e \in storeLog : e[1] = f[1] => e[2] <= f[2]

\* a batch of two records has failed at a block step of its first record
NothingAfterFailureWitness ==
    /\ <<1, 1>> \in failures
    /\ Len(event[1]) = 2
    /\ BlockStepFailed(1)
    /\ Settled(1)

\* C13: a store read, stream open or store write for record k of a batch is
\* made only when every earlier record of the batch was skipped or has had
\* completed = true written, and no block step of an earlier record is still
\* in flight when the next record is taken up.
OneArchiveAtATime ==
    /\ \A e \in storeLog : \A k \in 1..(e[2] - 1) :
            \/ <<e[1], k>> \in skipped
            \/ <<e[1], k, "completed">> \in storeLog
    /\ \A i \in Invocations :
            pc[i] \in {"readCar", "open", "writeCar"} => Settled(i)

\* the second record of a batch is at its block steps after the first one
\* was ingested to the end
OneArchiveAtATimeWitness ==
    /\ currentCar[1] = 2
    /\ <<1, 1, "completed">> \in storeLog
    /\ <<1, 2, "block">> \in storeLog

\* C16: at most one block step of an invocation is between its lookup and
\* the end of its write.
BlockStepsDoNotInterleave ==
    \A i \in Invocations :
        Cardinality({b \in DOMAIN blk[i] : blk[i][b].st \in {"lookup", "write"}}) <= 1

RECURSIVE IngestedAlone(_, _, _)
\* the item of cid after the first n blocks of archive car were taken one at
\* a time, each through its lookup and write, starting from an empty table
IngestedAlone(car, n, cid) ==
    IF n = 0 THEN NoBlock
    ELSE LET prev == IngestedAlone(car, n - 1, cid)
             block == Archives[car][n]
             decoded == DecodeBlock(block)
         IN  IF block.cid # cid THEN prev
             ELSE IF prev.exists
             THEN [prev EXCEPT !.cars = AppendedCars(prev.cars, car, block)]
             ELSE IF block.data = ""
             THEN NewBlockItem(car, "raw", block, <<>>, <<>>)
             ELSE NewBlockItem(car, decoded.codec, block, decoded.data, <<>>)

\* no two blocks of the archive have the same cid
DistinctCids(car) ==
    \A m, n \in DOMAIN Archives[car] :
        Archives[car][m].cid = Archives[car][n].cid => m = n

\* the first invocation failed at a block step of its only archive and the
\* second one ingested the same archive to the end
RetriedToTheEnd ==
    /\ pc[1] = "failed"
    /\ pc[2] = "finished"
    /\ event[1] = event[2]
    /\ Len(event[1]) = 1
    /\ BlockStepFailed(1)
    /\ <<2, 1, "completed">> \in storeLog

\* C17: when a first attempt on an archive of distinct cids failed at a block
\* step and a second attempt on it ran to the end, every block item has the
\* type, data and cars list that one ingestion of the archive from the empty
\* table gives.
RetryIdempotent ==
    (RetriedToTheEnd /\ DistinctCids(event[1][1])) =>
        \A cid \in CIDs :
            LET once == IngestedAlone(event[1][1], Len(Archives[event[1][1]]), cid)
            IN  /\ blocksTable[cid].exists = once.exists
                /\ blocksTable[cid].type = once.type
                /\ blocksTable[cid].data = once.data
                /\ blocksTable[cid].cars = once.cars

\* the step ends the write of block step b of invocation i
WriteDone(i, b) == blk[i][b].st = "write" /\ blk'[i][b].st = "done"

\* C18: the item a block step writes is computed from the item its lookup
\* returned, whatever the table holds at the time of the write: a cars
\* list read before another invocation's write and written after it
\* replaces that write.
WriteFromLookup ==
    [][\A i \in Invocations : \A b \in DOMAIN blk[i] :
          WriteDone(i, b) =>
              LET block == BlocksOf(i)[b]
                  found == blk[i][b].found
              IN  IF found.exists
                  THEN blocksTable'[block.cid].cars =
                          AppendedCars(found.cars, CarOf(i), block)
                  ELSE blocksTable'[block.cid].cars =
                          << [car |-> CarOf(i), offset |-> block.blockOffset,
                              length |-> block.blockLength] >>]_vars

\* two invocations have ingested different archives to the end, and an
\* occurrence of a block of the first archive, whose cids are distinct, is
\* in no cars list
LostUpdate ==
    /\ pc[1] = "finished"
    /\ pc[2] = "finished"
    /\ Len(event[1]) = 1
    /\ Len(event[2]) = 1
    /\ event[1][1] # event[2][1]
    /\ DistinctCids(event[1][1])
    /\ \E n \in DOMAIN sightings :
          /\ sightings[n].car = event[1][1]
          /\ \A m \in DOMAIN blocksTable[sightings[n].cid].cars :
                blocksTable[sightings[n].cid].cars[m].car # event[1][1]

\* block step b of invocation i is past its lookup, which found no item, and
\* its block has a payload: the step passes the block to decodeBlock
PassedToDecode(i, b) ==
    /\ blk[i][b].st = "write"
    /\ ~blk[i][b].found.exists
    /\ BlocksOf(i)[b].data # ""

\* C19: a block is passed to decodeBlock only while its cid has no item in
\* the blocks table.
DecodeOnlyWithoutRecord ==
    \A i \in Invocations : \A b \in DOMAIN blk[i] :
        PassedToDecode(i, b) => ~blocksTable[BlocksOf(i)[b].cid].exists

====
